---- MODULE Spec2Model ----
(***************************************************************************)
(* md-tts: the voice-model cache, the synthesis / transcode pipeline and   *)
(* the audio artifacts of services/tts_service.py, driven by concurrent    *)
(* conversion requests on one asyncio event loop.  A step of the model is  *)
(* the code that runs between two suspension points (await) of a request.  *)
(*                                                                         *)
(* Spec         convert_text_to_speech calls on a fresh storage directory  *)
(* SpecAcquire  get_voice calls alone, on a storage directory that may     *)
(*              hold model files already                                   *)
(* SpecStore    cleanup_old_files runs, each in a thread of its own, over  *)
(*              an audio directory that holds files of several ages        *)
(* SpecLocate   GET /status/{conversion_id} over such a directory          *)
(* SpecName     the file name convert_text_to_speech makes of a title      *)
(* SpecSize     get_file_size beside a run of cleanup_old_files            *)
(* SpecHistory  delete_conversion_record and DELETE /history/{id} over a   *)
(*              history table and an audio directory of earlier jobs       *)
(* SpecLimit    GET /history over tables of up to MaxRows rows             *)
(* SpecConvert  POST /convert from arrival to answer, once the default     *)
(*              voice is loaded                                            *)
(* SpecJobs     convert_text_to_speech calls beside runs of                *)
(*              cleanup_old_files with the default age                     *)
(* SpecStall    convert_text_to_speech calls of which the first may wait   *)
(*              for its download or its encoder for ever, the others being *)
(*              resumed in the end (weak fairness)                         *)
(***************************************************************************)
EXTENDS Integers, Sequences, FiniteSets, TLC

\* Number of requests, numbered in their order of arrival.
NumTasks == 2

Tasks == 1..NumTasks

\* Number of cleanup_old_files runs, numbered in their order of start.
NumSweeps == 1

Sweeps == 1..NumSweeps

\* Number of files the audio directory may hold at the start.
NumFiles == 2

None == "None"

(***************************************************************************)
(* models/voice_models.py: the catalog.  Two of its entries are modelled;  *)
(* every entry has the same shape.                                         *)
(***************************************************************************)
VoiceModel(id) ==
    [id |-> id, model_url |-> <<id, ".onnx">>, config_url |-> <<id, ".onnx.json">>]

VOICE_MODELS ==
    [k \in {"en_US-lessac-medium", "en_GB-alan-medium"} |-> VoiceModel(k)]

\* A voice id that is no key of VOICE_MODELS.
UnknownVoice == "unsupported-voice"

VoiceIds == DOMAIN VOICE_MODELS \cup {UnknownVoice}

get_voice_by_id_default(voice_id) ==
    IF voice_id \in DOMAIN VOICE_MODELS
    THEN VOICE_MODELS[voice_id]
    ELSE VOICE_MODELS["en_US-lessac-medium"]

\* dict.get: the entry, or Python's None.
NoVoiceModel == [none |-> TRUE]

get_voice_by_id(voice_id) ==
    IF voice_id \in DOMAIN VOICE_MODELS THEN VOICE_MODELS[voice_id] ELSE NoVoiceModel

\* The default entry under an id that is no key of the catalog.
get_default_voice_renamed == [VOICE_MODELS["en_US-lessac-medium"] EXCEPT !.id = "default"]

get_default_voice == VOICE_MODELS["en_US-lessac-medium"]

(***************************************************************************)
(* File names.  A name is a sequence of characters; the 36 characters of a *)
(* uuid4 are one token, and so is an extension with its dot.               *)
(***************************************************************************)
\* The characters of the model for which str.isalnum() is True: letters and
\* digits of ASCII, and a letter outside ASCII.
Alnum == {"R", "e", "p", "o", "r", "t", "Q", "1", "2", "é"}
Suffixes == {".wav", ".mp3"}

\* title[:50]
TitleMax == 50

NoTitle == <<>>
Titles == {NoTitle, <<"Q", ":", " ">>}

\* uuid.uuid4() of request n: a value no other request draws.
uuid4(n) == "id" \o ToString(n)

\* The titles a file name is computed for: every title of up to MaxTitleLen
\* characters, the title "Report: Q1/Q2!!", and titles of TitleMax + 1
\* characters, their character TitleMax being c.
MaxTitleLen == 3

TitleChars == {"Q", "é", ":", " ", "-"}

ReportTitle ==
    <<"R", "e", "p", "o", "r", "t", ":", " ", "Q", "1", "/", "Q", "2", "!", "!">>

LongTitle(c) == [i \in 1..(TitleMax + 1) |-> IF i = TitleMax THEN c ELSE "Q"]

TitleInputs ==
    UNION {[1..n -> TitleChars] : n \in 0..MaxTitleLen}
        \cup {ReportTitle, LongTitle("Q"), LongTitle(" ")}

RECURSIVE rstrip(_)
rstrip(s) ==
    IF s # <<>> /\ s[Len(s)] = " " THEN rstrip(SubSeq(s, 1, Len(s) - 1)) ELSE s

IsSafeChar_no_space(c) == c \in Alnum \/ c \in {"-", "_"}

IsSafeChar(c) == c \in Alnum \/ c \in {" ", "-", "_"}

safe_title_no_rstrip(title) == SelectSeq(title, IsSafeChar)

safe_title(title) == rstrip(SelectSeq(title, IsSafeChar))

Truncate(s, n) == SubSeq(s, 1, IF Len(s) < n THEN Len(s) ELSE n)

wav_filename(conversion_id, title) ==
    IF title # NoTitle
    THEN <<conversion_id, "_">> \o Truncate(safe_title(title), TitleMax) \o <<".wav">>
    ELSE <<conversion_id, ".wav">>

\* pathlib.PurePath.with_suffix: the last suffix, if any, is replaced.
with_suffix(name, ext) ==
    IF name # <<>> /\ name[Len(name)] \in Suffixes
    THEN SubSeq(name, 1, Len(name) - 1) \o <<ext>>
    ELSE name \o <<ext>>

StartsWith(name, prefix) ==
    /\ Len(prefix) <= Len(name)
    /\ SubSeq(name, 1, Len(prefix)) = prefix

(***************************************************************************)
(* The audio directory: a set of files [name, data, job, mtime].  data is  *)
(* "pcm" (the audio synthesized for job), "mp3" (its encoding) or "junk"   *)
(* (what a failed encoder run left behind); mtime is st_mtime, in seconds. *)
(***************************************************************************)
SecondsPerDay == 24 * 60 * 60

\* time.time(): the clock, which no run of the model is long enough to move.
time_time == 30 * SecondsPerDay

exists(files, name) == \E f \in files : f.name = name

unlink(files, name) == {f \in files : f.name # name}

write(files, name, data, job) ==
    unlink(files, name)
        \cup {[name |-> name, data |-> data, job |-> job, mtime |-> time_time]}

\* Path.rename: the source must exist; an existing target is replaced.
rename(files, src, dst) ==
    IF ~exists(files, src) THEN [files |-> files, raised |-> TRUE]
    ELSE IF src = dst THEN [files |-> files, raised |-> FALSE]
    ELSE [files |-> {f \in files : f.name \notin {src, dst}}
                     \cup {[f EXCEPT !.name = dst] : f \in {g \in files : g.name = src}},
          raised |-> FALSE]

VARIABLES
    loaded_voices,   \* voice id -> engine in the cache (0: none)
    models,          \* voice id -> state of <id>.onnx and <id>.onnx.json
    audio,           \* the files of storage/audio
    tasks,           \* the requests
    constructed,     \* voice id -> engines PiperVoice.load has returned
    nGet,            \* voice id -> HTTP GET requests issued
    partialLoads,    \* voice ids PiperVoice.load was called for on an incomplete file
    sweeps,          \* the runs of cleanup_old_files
    located,         \* the last answer of GET /status/{conversion_id}
    named,           \* a title and the file name lines 175-184 make of it
    sized,           \* the call of get_file_size
    conversions,     \* the rows of table conversions, oldest first
    answer,          \* the last answer of the history store or its endpoints
    replies,         \* request -> what POST /convert got and answered
    scheduled        \* the calls of background_tasks.add_task, in order

\* The history store and what main.py answers.
apiVars == <<conversions, answer, replies, scheduled>>

\* What the calls outside the pipeline and the sweep work on.
callVars == <<named, sized, apiVars>>

vars == <<loaded_voices, models, audio, tasks, constructed, nGet, partialLoads,
          sweeps, located, callVars>>

storeVars == <<sweeps, located, callVars>>

\* Python's None where a path or a return value is expected.
NoPath == <<>>

IdleSweep ==
    [pc |-> "idle", max_age_days |-> 0, current_time |-> 0, max_age_seconds |-> 0,
     todo |-> {},
     file |-> NoPath, deleted |-> {}, errors |-> {}, ret |-> NoPath]

NoStatus == [conversion_id |-> None, audio_file |-> NoPath, status |-> "none"]

\* No call of get_file_size yet; ret is -1 until the call returns.
IdleSize == [pc |-> "idle", file_path |-> NoPath, found |-> FALSE, ret |-> -1]

\* No answer yet.  ret is what delete_conversion_record returned, code the
\* HTTP status, limit what the endpoint passed on, items the rows returned,
\* unlinked the file the endpoint removed.
NoAnswer ==
    [call |-> "none", conversion_id |-> None, ret |-> FALSE, code |-> 0, limit |-> 0,
     items |-> <<>>, unlinked |-> NoPath]

\* POST /convert has not arrived; code is the HTTP status of the answer.
NoReply ==
    [arrived |-> FALSE, markdown_text |-> <<>>, code |-> 0, conversion_id |-> None,
     status |-> "none", download_url |-> NoPath, detail |-> "none"]

\* The title of a request whose file name is not computed yet.
Untitled(title) == [title |-> title, conversion_id |-> None, filename |-> NoPath]

\* The ages of the files the audio directory holds at the start, in seconds.
Ages == {0, 6 * SecondsPerDay, 7 * SecondsPerDay, 8 * SecondsPerDay}

\* The name convert_text_to_speech gave the artifact of job n.
StoreName(n) ==
    IF n % 2 = 1 THEN <<uuid4(n), ".mp3">> ELSE <<uuid4(n), "_", "Q", ".wav">>

StoreFile(n, age) ==
    [name |-> StoreName(n), data |-> IF n % 2 = 1 THEN "mp3" ELSE "pcm",
     job |-> uuid4(n), mtime |-> time_time - age]

\* The audio directories the service may start over.
Directories ==
    UNION {{{StoreFile(n, age[n]) : n \in P} : age \in [P -> Ages]} :
           P \in SUBSET (1..NumFiles)}

IdleTask ==
    [pc |-> "idle", op |-> "none", voice |-> None, title |-> NoTitle, id |-> None, engine |-> 0,
     ret |-> <<>>, file |-> <<>>, err |-> "none", tr |-> "none", stages |-> <<>>, ran |-> <<>>]

(***************************************************************************)
(* TTSService.__init__: an empty cache over a storage directory.  The      *)
(* directory may be there already (mkdir(exist_ok=True)): onDisk is the    *)
(* state of the two model files of the id outside the catalog, dir is what *)
(* storage/audio holds.  The catalog's voices are not downloaded yet.      *)
(***************************************************************************)
TTSService_init(onDisk, dir) ==
    /\ loaded_voices = [v \in VoiceIds |-> 0]
    /\ models = [v \in VoiceIds |->
                   IF v = UnknownVoice
                   THEN [model |-> onDisk, config |-> onDisk]
                   ELSE [model |-> "absent", config |-> "absent"]]
    /\ audio = dir
    /\ tasks = [t \in Tasks |-> IdleTask]
    /\ constructed = [v \in VoiceIds |-> 0]
    /\ nGet = [v \in VoiceIds |-> 0]
    /\ partialLoads = {}
    /\ sweeps = [s \in Sweeps |-> IdleSweep]
    /\ located = NoStatus

\* No call outside the pipeline was made yet.
NoCalls ==
    /\ named = Untitled(NoTitle)
    /\ sized = IdleSize
    /\ answer = NoAnswer
    /\ replies = [t \in Tasks |-> NoReply]
    /\ scheduled = <<>>

\* ConversionHistory._init_db over a database file that is not there yet.
NoRows == conversions = <<>>

\* A fresh storage directory.
Init == TTSService_init("absent", {}) /\ NoCalls /\ NoRows

\* A storage directory in which the model files of an id may be left from an
\* earlier run, empty (touch) or whole.
InitAcquire ==
    \E onDisk \in {"absent", "empty", "complete"} :
        TTSService_init(onDisk, {}) /\ NoCalls /\ NoRows

\* A storage directory that holds the artifacts of earlier conversions.
InitStore ==
    \E dir \in Directories : TTSService_init("absent", dir) /\ NoCalls /\ NoRows

(***************************************************************************)
(* models/database.py, ConversionHistory: table conversions with primary   *)
(* key id.  A row is [id, title, status, file_size, file_path]; file_size  *)
(* -1 and file_path <<>> stand for NULL.  created_at grows along the       *)
(* sequence.                                                               *)
(***************************************************************************)
Row(id, title, status, file_size, file_path) ==
    [id |-> id, title |-> title, status |-> status, file_size |-> file_size,
     file_path |-> file_path]

\* The row /convert leaves for job n: "completed" with the path and size of
\* the MP3 file, or "pending" when update_conversion_success raised.
StoreRow(n, status) ==
    Row(uuid4(n), IF n % 2 = 1 THEN NoTitle ELSE <<"Q">>, status,
        IF status = "completed" THEN 2 ELSE -1,
        IF status = "completed" THEN with_suffix(StoreName(n), ".mp3") ELSE NoPath)

\* The tables the service may start over: rows of some of the jobs.
Tables ==
    {SelectSeq([n \in 1..NumFiles |-> StoreRow(n, st[n])],
               LAMBDA r : r.id \in {uuid4(n) : n \in P}) :
        st \in [1..NumFiles -> {"pending", "completed"}], P \in SUBSET (1..NumFiles)}

\* A database and a storage directory left by earlier conversions; a row may
\* have lost its file (sweep) and a file may have no row (database error).
InitHistory ==
    \E dir \in Directories, rows \in Tables :
        TTSService_init("absent", dir) /\ NoCalls /\ conversions = rows

\* GET /history caps limit here.
HistoryLimitCap == 100

MaxRows == 102

RowCounts == {0, 1, 2, 50} \cup (HistoryLimitCap - 1)..MaxRows

Limits == {-1, 0, 1, 2, 50, HistoryLimitCap, HistoryLimitCap + 1}

Offsets == {0, 1, 2}

\* A database with n rows of completed conversions.
InitLimit ==
    \E n \in RowCounts :
        /\ TTSService_init("absent", {})
        /\ NoCalls
        /\ conversions = [i \in 1..n |-> StoreRow(i, "completed")]

\* main.py, lifespan: the services are constructed and initialize_voice()
\* has downloaded and loaded the default voice before the first request is
\* served.  dir is what storage/audio holds.
lifespan_over(dir) ==
    LET voice_id == get_default_voice.id
    IN  /\ loaded_voices = [v \in VoiceIds |-> IF v = voice_id THEN 1 ELSE 0]
        /\ models = [v \in VoiceIds |->
                       IF v = voice_id
                       THEN [model |-> "complete", config |-> "complete"]
                       ELSE [model |-> "absent", config |-> "absent"]]
        /\ audio = dir
        /\ tasks = [t \in Tasks |-> IdleTask]
        /\ constructed = [v \in VoiceIds |-> IF v = voice_id THEN 1 ELSE 0]
        /\ nGet = [v \in VoiceIds |-> IF v = voice_id THEN 2 ELSE 0]
        /\ partialLoads = {}
        /\ sweeps = [s \in Sweeps |-> IdleSweep]
        /\ located = NoStatus

\* The audio directory is new.
lifespan == lifespan_over({})

InitConvert == lifespan /\ NoCalls /\ NoRows

\* The artifact an earlier run of the service has left; its job is none of
\* the requests of this run.
LeftBehind ==
    {{StoreFile(NumTasks + 1, age)} : age \in {6 * SecondsPerDay, 8 * SecondsPerDay}}

InitJobs == \E dir \in LeftBehind : lifespan_over(dir) /\ NoCalls /\ NoRows

\* A request with a title, before lines 175-184.
InitName ==
    \E title \in TitleInputs :
        /\ TTSService_init("absent", {})
        /\ named = Untitled(title)
        /\ sized = IdleSize
        /\ answer = NoAnswer
        /\ replies = [t \in Tasks |-> NoReply]
        /\ scheduled = <<>>
        /\ NoRows

(***************************************************************************)
(* TTSService._convert_to_mp3 (ffmpeg).  outcome is how the encoder ended: *)
(* "ok" (exit code 0), "nonzero" (any other exit code) or "notfound" (no   *)
(* such executable); leavesOutput says whether a failing encoder had       *)
(* already created its output file.  The result is the directory after the *)
(* call and whether the call raised.                                       *)
(***************************************************************************)
jobOf(files, name) ==
    IF exists(files, name) THEN (CHOOSE f \in files : f.name = name).job ELSE None

convert_to_mp3_reraise(files, wav_file, mp3_file, outcome, leavesOutput) ==
    IF outcome = "ok" /\ exists(files, wav_file)
    THEN [files |-> write(files, mp3_file, "mp3", jobOf(files, wav_file)), raised |-> FALSE]
    ELSE [files |-> files, raised |-> TRUE]

convert_to_mp3_rename_to_mp3(files, wav_file, mp3_file, outcome, leavesOutput) ==
    IF outcome = "ok" /\ exists(files, wav_file)
    THEN [files |-> write(files, mp3_file, "mp3", jobOf(files, wav_file)), raised |-> FALSE]
    ELSE rename(files, wav_file, mp3_file)

convert_to_mp3(files, wav_file, mp3_file, outcome, leavesOutput) ==
    IF outcome = "ok" /\ exists(files, wav_file)
    THEN [files |-> write(files, mp3_file, "mp3", jobOf(files, wav_file)), raised |-> FALSE]
    ELSE IF outcome = "notfound"
    THEN rename(files, wav_file, with_suffix(mp3_file, ".wav"))
    ELSE rename(IF leavesOutput
                THEN write(files, mp3_file, "junk", jobOf(files, wav_file))
                ELSE files,
                wav_file, with_suffix(mp3_file, ".wav"))

(***************************************************************************)
(* TTSService.convert_text_to_speech, the except clause: clean up, raise.  *)
(***************************************************************************)
cleanup_on_error_keep(files, audio_file) == files

cleanup_on_error(files, audio_file) ==
    IF exists(files, audio_file) THEN unlink(files, audio_file) ELSE files

(***************************************************************************)
(* TTSService.convert_text_to_speech from the uuid to the await of the     *)
(* encoder: the file name, wave.open, voice.synthesize.  synth is how that *)
(* went: "ok", "open_error" (wave.open raised, no file was created) or     *)
(* "synth_error" (voice.synthesize raised into the open file).             *)
(***************************************************************************)
SynthOutcomes == {"ok", "open_error", "synth_error"}

synthesize(rec, files, n, title, engine, synth) ==
    LET conversion_id == uuid4(n)
        audio_file == wav_filename(conversion_id, title)
        job == [rec EXCEPT !.id = conversion_id, !.title = title, !.engine = engine,
                           !.file = audio_file]
    IN  IF synth = "ok"
        THEN [task |-> [job EXCEPT !.pc = "ffmpeg",
                                   !.stages = <<"Created", "Synthesizing", "Transcoding">>,
                                   !.ran = @ \o <<"synthesize", "transcode">>],
              files |-> write(files, audio_file, "pcm", conversion_id)]
        ELSE [task |-> [job EXCEPT !.pc = "raised", !.err = "synthesis",
                                   !.stages = <<"Created", "Synthesizing", "Failed">>,
                                   !.ran = @ \o <<"synthesize">>],
              files |-> cleanup_on_error(
                            IF synth = "open_error"
                            THEN files
                            ELSE write(files, audio_file, "junk", conversion_id),
                            audio_file)]

(***************************************************************************)
(* TTSService.convert_text_to_speech after the encoder: unlink the WAV     *)
(* file and return the MP3 path; an exception goes to the except clause.   *)
(***************************************************************************)
after_encoder_keeps_wav(rec, files, outcome, leavesOutput) ==
    LET audio_file == rec.file
        mp3_file == with_suffix(audio_file, ".mp3")
        r == convert_to_mp3(files, audio_file, mp3_file, outcome, leavesOutput)
        done == [rec EXCEPT !.tr = outcome]
    IN  IF r.raised \/ ~exists(r.files, audio_file)
        THEN [task |-> [done EXCEPT !.pc = "raised", !.err = "os",
                                    !.stages = @ \o <<"Failed">>],
              files |-> cleanup_on_error(r.files, audio_file)]
        ELSE [task |-> [done EXCEPT !.pc = "returned", !.ret = mp3_file,
                                    !.stages = @ \o <<IF outcome = "ok"
                                                      THEN "Completed"
                                                      ELSE "FallbackCompleted">>],
              files |-> r.files]

after_encoder(rec, files, outcome, leavesOutput) ==
    LET audio_file == rec.file
        mp3_file == with_suffix(audio_file, ".mp3")
        r == convert_to_mp3(files, audio_file, mp3_file, outcome, leavesOutput)
        done == [rec EXCEPT !.tr = outcome]
    IN  IF r.raised \/ ~exists(r.files, audio_file)
        THEN [task |-> [done EXCEPT !.pc = "raised", !.err = "os",
                                    !.stages = @ \o <<"Failed">>],
              files |-> cleanup_on_error(r.files, audio_file)]
        ELSE [task |-> [done EXCEPT !.pc = "returned", !.ret = mp3_file,
                                    !.stages = @ \o <<IF outcome = "ok"
                                                      THEN "Completed"
                                                      ELSE "FallbackCompleted">>],
              files |-> unlink(r.files, audio_file)]

(***************************************************************************)
(* TTSService._download_voice_model up to its first await: the files on    *)
(* disk are looked at first, the catalog second.                           *)
(***************************************************************************)
download_check_nonempty(files, voice_id) ==
    IF files[voice_id].model \notin {"absent", "empty"}
       /\ files[voice_id].config \notin {"absent", "empty"}
    THEN "exists"
    ELSE IF get_voice_by_id(voice_id) = NoVoiceModel THEN "not_found" ELSE "download"

download_check_catalog_first(files, voice_id) ==
    IF get_voice_by_id(voice_id) = NoVoiceModel
    THEN "not_found"
    ELSE IF files[voice_id].model # "absent" /\ files[voice_id].config # "absent"
    THEN "exists"
    ELSE "download"

download_check(files, voice_id) ==
    IF files[voice_id].model # "absent" /\ files[voice_id].config # "absent"
    THEN "exists"
    ELSE IF get_voice_by_id(voice_id) = NoVoiceModel THEN "not_found" ELSE "download"

\* A model or config file is "absent", "empty" (open(..., "wb") has created or
\* truncated it and no chunk has been written since), "partial" (some of its
\* chunks are written) or "complete".
Incomplete == {"empty", "partial"}

\* Another request is writing the same file of the same voice.
OtherWriter(t, voice_id, pc) ==
    \E u \in Tasks \ {t} : tasks[u].pc = pc /\ tasks[u].voice = voice_id

\* What a finished write leaves: the whole file, unless another request
\* truncated it meanwhile and has not caught up.
Written(t, voice_id, pc) ==
    IF OtherWriter(t, voice_id, pc) THEN {"partial", "complete"} ELSE {"complete"}

\* What a write leaves when the stream of chunks breaks: the chunks written
\* so far, which may be none.
Interrupted(state) == IF state = "empty" THEN Incomplete ELSE {state}

\* PiperVoice.load raises or returns an engine; it reads the config file as
\* JSON, and a truncated JSON text never parses.
PiperVoice_can_load(files, voice_id) == files[voice_id].config = "complete"

\* voice_id in self.loaded_voices
is_loaded_never(cache, voice_id) == FALSE

is_loaded(cache, voice_id) == cache[voice_id] # 0

\* self.loaded_voices[voice_id] = voice
cache_put_single(cache, voice_id, voice) ==
    [v \in DOMAIN cache |-> IF v = voice_id THEN voice ELSE 0]

cache_put(cache, voice_id, voice) == [cache EXCEPT ![voice_id] = voice]

Raise(rec, err) == [rec EXCEPT !.pc = "raised", !.err = err]

(***************************************************************************)
(* get_voice returns the engine, line 90: to its caller when it was called *)
(* alone, into convert_text_to_speech (line 171) otherwise.                *)
(***************************************************************************)
get_voice_return(rec, files, n, title, engine, synth) ==
    IF rec.op = "get_voice"
    THEN [task |-> [rec EXCEPT !.pc = "returned", !.engine = engine], files |-> files]
    ELSE synthesize(rec, files, n, title, engine, synth)

\* PiperVoice.load has raised, and an entry is written all the same.
LoadVoice_caches_failure(t, rec, files, title, loadOk, synth) ==
    LET voice_id == rec.voice
        loaded == loadOk /\ PiperVoice_can_load(files, voice_id)
        engine == constructed[voice_id] + 1
        r == get_voice_return(rec, audio, t, title, engine, synth)
    IN  /\ partialLoads' =
              IF {files[voice_id].model, files[voice_id].config} \cap Incomplete # {}
              THEN partialLoads \cup {voice_id}
              ELSE partialLoads
        /\ IF loaded
           THEN /\ constructed' = [constructed EXCEPT ![voice_id] = engine]
                /\ loaded_voices' = cache_put(loaded_voices, voice_id, engine)
                /\ tasks' = [tasks EXCEPT ![t] = r.task]
                /\ audio' = r.files
           ELSE /\ tasks' = [tasks EXCEPT ![t] = Raise(rec, "load")]
                /\ loaded_voices' = cache_put(loaded_voices, voice_id, engine)
                /\ UNCHANGED <<constructed, audio>>

(***************************************************************************)
(* TTSService.initialize_voice once _download_voice_model has returned the *)
(* model path: PiperVoice.load, the cache entry, and on through get_voice  *)
(* into convert_text_to_speech up to the await of the encoder.             *)
(***************************************************************************)
LoadVoice(t, rec, files, title, loadOk, synth) ==
    LET voice_id == rec.voice
        loaded == loadOk /\ PiperVoice_can_load(files, voice_id)
        engine == constructed[voice_id] + 1
        r == get_voice_return(rec, audio, t, title, engine, synth)
    IN  /\ partialLoads' =
              IF {files[voice_id].model, files[voice_id].config} \cap Incomplete # {}
              THEN partialLoads \cup {voice_id}
              ELSE partialLoads
        /\ IF loaded
           THEN /\ constructed' = [constructed EXCEPT ![voice_id] = engine]
                /\ loaded_voices' = cache_put(loaded_voices, voice_id, engine)
                /\ tasks' = [tasks EXCEPT ![t] = r.task]
                /\ audio' = r.files
           ELSE /\ tasks' = [tasks EXCEPT ![t] = Raise(rec, "load")]
                /\ UNCHANGED <<constructed, loaded_voices, audio>>

(***************************************************************************)
(* get_voice, called alone (op "get_voice") or by convert_text_to_speech   *)
(* (op "convert"), run to the first await that suspends.  The title of a   *)
(* conversion is first read after get_voice has returned, and is drawn     *)
(* there.                                                                  *)
(***************************************************************************)
get_voice(t, op, voice_arg, title, loadOk, synth) ==
    LET voice_id == IF voice_arg = None THEN get_default_voice.id ELSE voice_arg
        rec == [IdleTask EXCEPT !.op = op, !.voice = voice_id, !.ran = <<"acquire">>]
        check == download_check(models, voice_id)
    IN  /\ tasks[t].pc = "idle"
        /\ \A u \in Tasks : u < t => tasks[u].pc # "idle"
        /\ IF is_loaded(loaded_voices, voice_id)
           THEN LET r == get_voice_return(rec, audio, t, title,
                                          loaded_voices[voice_id], synth)
                IN  /\ tasks' = [tasks EXCEPT ![t] = r.task]
                    /\ audio' = r.files
                    /\ UNCHANGED <<loaded_voices, models, constructed, nGet, partialLoads>>
           ELSE IF check = "exists"
           THEN /\ LoadVoice(t, rec, models, title, loadOk, synth)
                /\ UNCHANGED <<models, nGet>>
           ELSE IF check = "not_found"
           THEN /\ tasks' = [tasks EXCEPT ![t] = Raise(rec, "unknown_voice")]
                /\ UNCHANGED <<loaded_voices, models, audio, constructed,
                               nGet, partialLoads>>
           ELSE /\ tasks' = [tasks EXCEPT ![t] = [rec EXCEPT !.pc = "get_model"]]
                /\ nGet' = [nGet EXCEPT ![voice_id] = @ + 1]
                /\ UNCHANGED <<loaded_voices, models, audio, constructed,
                               partialLoads>>

\* The places where _download_voice_model is suspended.
LoadPcs == {"get_model", "write_model", "get_config", "write_config"}

\* A call of convert_text_to_speech.
Convert(t, voice_arg, title, loadOk, synth) ==
    /\ get_voice(t, "convert", voice_arg, title, loadOk, synth)
    /\ UNCHANGED storeVars

\* A call of get_voice alone.
GetVoice(t, voice_arg, loadOk) ==
    /\ get_voice(t, "get_voice", voice_arg, NoTitle, loadOk, "ok")
    /\ UNCHANGED storeVars

(***************************************************************************)
(* _download_voice_model: the response to session.get(model_url).          *)
(***************************************************************************)
ModelResponse_serialized(t, status200) ==
    LET rec == tasks[t]
    IN  /\ rec.pc = "get_model"
        /\ \A u \in Tasks : u < t => tasks[u].pc \notin LoadPcs
        /\ IF status200
           THEN /\ models' = [models EXCEPT ![rec.voice].model = "empty"]
                /\ tasks' = [tasks EXCEPT ![t].pc = "write_model"]
           ELSE /\ tasks' = [tasks EXCEPT ![t] = Raise(rec, "download")]
                /\ UNCHANGED models
        /\ UNCHANGED <<loaded_voices, audio, constructed, nGet, partialLoads, storeVars>>

ModelResponse(t, status200) ==
    LET rec == tasks[t]
    IN  /\ rec.pc = "get_model"
        /\ IF status200
           THEN /\ models' = [models EXCEPT ![rec.voice].model = "empty"]
                /\ tasks' = [tasks EXCEPT ![t].pc = "write_model"]
           ELSE /\ tasks' = [tasks EXCEPT ![t] = Raise(rec, "download")]
                /\ UNCHANGED models
        /\ UNCHANGED <<loaded_voices, audio, constructed, nGet, partialLoads, storeVars>>

(***************************************************************************)
(* _download_voice_model: the chunks of the model file, then               *)
(* session.get(config_url).                                                *)
(***************************************************************************)
ModelChunks(t, streamOk) ==
    LET rec == tasks[t]
    IN  /\ rec.pc = "write_model"
        /\ IF streamOk
           THEN /\ \E st \in Written(t, rec.voice, "write_model") :
                      models' = [models EXCEPT ![rec.voice].model = st]
                /\ tasks' = [tasks EXCEPT ![t].pc = "get_config"]
                /\ nGet' = [nGet EXCEPT ![rec.voice] = @ + 1]
           ELSE /\ tasks' = [tasks EXCEPT ![t] = Raise(rec, "download")]
                /\ \E left \in Interrupted(models[rec.voice].model) :
                      models' = [models EXCEPT ![rec.voice].model = left]
                /\ UNCHANGED nGet
        /\ UNCHANGED <<loaded_voices, audio, constructed, partialLoads, storeVars>>

(***************************************************************************)
(* _download_voice_model: the response to session.get(config_url).         *)
(***************************************************************************)
ConfigResponse(t, status200) ==
    LET rec == tasks[t]
    IN  /\ rec.pc = "get_config"
        /\ IF status200
           THEN /\ models' = [models EXCEPT ![rec.voice].config = "empty"]
                /\ tasks' = [tasks EXCEPT ![t].pc = "write_config"]
           ELSE /\ tasks' = [tasks EXCEPT ![t] = Raise(rec, "download")]
                /\ UNCHANGED models
        /\ UNCHANGED <<loaded_voices, audio, constructed, nGet, partialLoads, storeVars>>

(***************************************************************************)
(* _download_voice_model: the chunks of the config file and the return of  *)
(* the model path; initialize_voice goes on with it.                       *)
(***************************************************************************)
ConfigChunks(t, streamOk, title, loadOk, synth) ==
    LET rec == tasks[t]
    IN  /\ rec.pc = "write_config"
        /\ IF streamOk
           THEN \E st \in Written(t, rec.voice, "write_config") :
                   /\ models' = [models EXCEPT ![rec.voice].config = st]
                   /\ LoadVoice(t, rec, models', title, loadOk, synth)
           ELSE /\ tasks' = [tasks EXCEPT ![t] = Raise(rec, "download")]
                /\ \E left \in Interrupted(models[rec.voice].config) :
                      models' = [models EXCEPT ![rec.voice].config = left]
                /\ UNCHANGED <<loaded_voices, audio, constructed, partialLoads>>
        /\ UNCHANGED <<nGet, storeVars>>

(***************************************************************************)
(* convert_text_to_speech: the encoder process has ended (or could not be  *)
(* started).                                                               *)
(***************************************************************************)
EncoderExit(t, outcome, leavesOutput) ==
    LET r == after_encoder(tasks[t], audio, outcome, leavesOutput)
    IN  /\ tasks[t].pc = "ffmpeg"
        /\ tasks' = [tasks EXCEPT ![t] = r.task]
        /\ audio' = r.files
        /\ UNCHANGED <<loaded_voices, models, constructed, nGet, partialLoads, storeVars>>

(***************************************************************************)
(* TTSService.cleanup_old_files.  It is a plain function that main.py      *)
(* hands to BackgroundTasks, so each run has a thread of its own and runs  *)
(* alongside the others.  A run lists the directory (iterdir), then takes  *)
(* the names one by one: is_file, stat, unlink.  A sweep record keeps what *)
(* the run logged: deleted (logger.info) and errors (logger.error).        *)
(***************************************************************************)
\* The parameter's default.
DefaultMaxAgeDays == 7

MaxAgeDays == {DefaultMaxAgeDays, 6}

\* The for loop goes to its next name, or the function returns (None).
next_file(sw, todo) ==
    IF todo = {}
    THEN [sw EXCEPT !.pc = "done", !.todo = {}, !.file = NoPath, !.ret = NoPath]
    ELSE [sw EXCEPT !.pc = "iter", !.todo = todo, !.file = NoPath]

mtimeOf(files, name) == (CHOOSE f \in files : f.name = name).mtime

\* Lines 293-299 for the file the run is at; unlinkOk says whether unlink,
\* if called, succeeds.  A file that is gone makes stat raise.
cleanup_file_at_age(sw, files, unlinkOk) ==
    IF ~exists(files, sw.file)
    THEN [sweep |-> [sw EXCEPT !.pc = "raised"], files |-> files]
    ELSE LET file_age == sw.current_time - mtimeOf(files, sw.file)
         IN  IF file_age >= sw.max_age_seconds
             THEN IF unlinkOk
                  THEN [sweep |-> next_file(
                                      [sw EXCEPT !.deleted = @ \cup
                                           {[name |-> sw.file, age |-> file_age]}],
                                      sw.todo),
                        files |-> unlink(files, sw.file)]
                  ELSE [sweep |-> next_file([sw EXCEPT !.errors = @ \cup {sw.file}],
                                            sw.todo),
                        files |-> files]
             ELSE [sweep |-> next_file(sw, sw.todo), files |-> files]

cleanup_file_logs_first(sw, files, unlinkOk) ==
    IF ~exists(files, sw.file)
    THEN [sweep |-> [sw EXCEPT !.pc = "raised"], files |-> files]
    ELSE LET file_age == sw.current_time - mtimeOf(files, sw.file)
             logged == [sw EXCEPT !.deleted = @ \cup
                                      {[name |-> sw.file, age |-> file_age]}]
         IN  IF file_age > sw.max_age_seconds
             THEN IF unlinkOk
                  THEN [sweep |-> next_file(logged, sw.todo),
                        files |-> unlink(files, sw.file)]
                  ELSE [sweep |-> next_file([logged EXCEPT !.errors = @ \cup {sw.file}],
                                            sw.todo),
                        files |-> files]
             ELSE [sweep |-> next_file(sw, sw.todo), files |-> files]

cleanup_file_unguarded(sw, files, unlinkOk) ==
    IF ~exists(files, sw.file)
    THEN [sweep |-> [sw EXCEPT !.pc = "raised"], files |-> files]
    ELSE LET file_age == sw.current_time - mtimeOf(files, sw.file)
         IN  IF file_age > sw.max_age_seconds
             THEN IF unlinkOk
                  THEN [sweep |-> next_file(
                                      [sw EXCEPT !.deleted = @ \cup
                                           {[name |-> sw.file, age |-> file_age]}],
                                      sw.todo),
                        files |-> unlink(files, sw.file)]
                  ELSE [sweep |-> [sw EXCEPT !.pc = "raised", !.errors = @ \cup {sw.file}],
                        files |-> files]
             ELSE [sweep |-> next_file(sw, sw.todo), files |-> files]

cleanup_file_any_age(sw, files, unlinkOk) ==
    IF ~exists(files, sw.file)
    THEN [sweep |-> [sw EXCEPT !.pc = "raised"], files |-> files]
    ELSE LET file_age == sw.current_time - mtimeOf(files, sw.file)
         IN  IF unlinkOk
             THEN [sweep |-> next_file(
                                 [sw EXCEPT !.deleted = @ \cup
                                      {[name |-> sw.file, age |-> file_age]}],
                                 sw.todo),
                   files |-> unlink(files, sw.file)]
             ELSE [sweep |-> next_file([sw EXCEPT !.errors = @ \cup {sw.file}],
                                       sw.todo),
                   files |-> files]

cleanup_file(sw, files, unlinkOk) ==
    IF ~exists(files, sw.file)
    THEN [sweep |-> [sw EXCEPT !.pc = "raised"], files |-> files]
    ELSE LET file_age == sw.current_time - mtimeOf(files, sw.file)
         IN  IF file_age > sw.max_age_seconds
             THEN IF unlinkOk
                  THEN [sweep |-> next_file(
                                      [sw EXCEPT !.deleted = @ \cup
                                           {[name |-> sw.file, age |-> file_age]}],
                                      sw.todo),
                        files |-> unlink(files, sw.file)]
                  ELSE [sweep |-> next_file([sw EXCEPT !.errors = @ \cup {sw.file}],
                                            sw.todo),
                        files |-> files]
             ELSE [sweep |-> next_file(sw, sw.todo), files |-> files]

\* Lines 288-291: the clock is read, the threshold computed, the directory
\* listed.
CleanupStart(s, max_age_days) ==
    LET sw == [IdleSweep EXCEPT !.max_age_days = max_age_days,
                                !.current_time = time_time,
                                !.max_age_seconds = max_age_days * 24 * 60 * 60]
    IN  /\ sweeps[s].pc = "idle"
        /\ \A r \in Sweeps : r < s => sweeps[r].pc # "idle"
        /\ sweeps' = [sweeps EXCEPT ![s] = next_file(sw, {f.name : f \in audio})]
        /\ UNCHANGED <<loaded_voices, models, audio, tasks, constructed, nGet,
                       partialLoads, located, callVars>>

\* Line 292: file.is_file(), which is False for a name that is gone.
CleanupIsFile(s, name) ==
    LET sw == sweeps[s]
    IN  /\ sw.pc = "iter"
        /\ name \in sw.todo
        /\ sweeps' = [sweeps EXCEPT ![s] =
                          IF exists(audio, name)
                          THEN [sw EXCEPT !.pc = "stat", !.file = name,
                                          !.todo = @ \ {name}]
                          ELSE next_file(sw, sw.todo \ {name})]
        /\ UNCHANGED <<loaded_voices, models, audio, tasks, constructed, nGet,
                       partialLoads, located, callVars>>

\* Lines 293-299.
CleanupFile(s, unlinkOk) ==
    LET r == cleanup_file(sweeps[s], audio, unlinkOk)
    IN  /\ sweeps[s].pc = "stat"
        /\ sweeps' = [sweeps EXCEPT ![s] = r.sweep]
        /\ audio' = r.files
        /\ UNCHANGED <<loaded_voices, models, tasks, constructed, nGet,
                       partialLoads, located, callVars>>

(***************************************************************************)
(* TTSService.get_audio_file_path: Path.glob(f"{conversion_id}*{ext}"),    *)
(* ".mp3" before ".wav".  The pattern is conversion_id, "*", ext; in       *)
(* conversion_id a "?" stands for any one character, as in every glob      *)
(* pattern, and no id of the model is the beginning of another.  The       *)
(* result is the set of paths the call may return: glob yields its matches *)
(* in no stated order.                                                     *)
(***************************************************************************)
QueryIds == {uuid4(1), uuid4(2), "nonexistent", "?"}

glob_match(name, conversion_id, ext) ==
    /\ Len(name) >= 2
    /\ name[Len(name)] = ext
    /\ conversion_id # "?" => name[1] = conversion_id

glob(files, conversion_id, ext) ==
    {f.name : f \in {g \in files : glob_match(g.name, conversion_id, ext)}}

get_audio_file_path(files, conversion_id) ==
    IF glob(files, conversion_id, ".mp3") # {}
    THEN glob(files, conversion_id, ".mp3")
    ELSE IF glob(files, conversion_id, ".wav") # {}
    THEN glob(files, conversion_id, ".wav")
    ELSE {NoPath}

\* main.py, get_conversion_status, given what get_audio_file_path returned.
get_conversion_status(files, conversion_id, audio_file) ==
    [conversion_id |-> conversion_id, audio_file |-> audio_file,
     status |-> IF audio_file # NoPath /\ exists(files, audio_file)
                THEN "completed"
                ELSE "not_found"]

\* GET /status/{conversion_id}
Status(conversion_id) ==
    /\ \E audio_file \in get_audio_file_path(audio, conversion_id) :
          located' = get_conversion_status(audio, conversion_id, audio_file)
    /\ UNCHANGED <<loaded_voices, models, audio, tasks, constructed, nGet,
                   partialLoads, sweeps, callVars>>

\* convert_text_to_speech, lines 175-184: the uuid and the file name.
Filename(n) ==
    /\ named.conversion_id = None
    /\ named' = [named EXCEPT !.conversion_id = uuid4(n),
                              !.filename = wav_filename(uuid4(n), named.title)]
    /\ UNCHANGED <<loaded_voices, models, audio, tasks, constructed, nGet,
                   partialLoads, sweeps, located, sized, apiVars>>

(***************************************************************************)
(* TTSService.get_file_size: file_path.stat().st_size if file_path.exists() *)
(* else 0.  exists() is evaluated first and stat() after it; a run of       *)
(* cleanup_old_files, which has a thread of its own, can unlink the file    *)
(* between the two, and stat() of a file that is gone raises                *)
(* FileNotFoundError.                                                       *)
(***************************************************************************)
\* The paths get_file_size is called with.
SizePaths == {StoreName(n) : n \in 1..NumFiles} \cup {<<"nonexistent", ".mp3">>}

\* st_size by content: encoded audio is shorter than samples, and what a
\* failed encoder left may be empty.
Bytes == [pcm |-> 4, mp3 |-> 2, junk |-> 0]

st_size(files, name) == Bytes[(CHOOSE f \in files : f.name = name).data]

get_file_size_stat(size, files) ==
    IF exists(files, size.file_path)
    THEN [size EXCEPT !.pc = "done", !.ret = st_size(files, size.file_path)]
    ELSE [size EXCEPT !.pc = "raised"]

\* file_path.exists()
GetFileSizeExists(file_path) ==
    /\ sized.pc = "idle"
    /\ sized' = IF exists(audio, file_path)
                THEN [sized EXCEPT !.pc = "stat", !.file_path = file_path,
                                   !.found = TRUE]
                ELSE [sized EXCEPT !.pc = "done", !.file_path = file_path,
                                   !.ret = 0]
    /\ UNCHANGED <<loaded_voices, models, audio, tasks, constructed, nGet,
                   partialLoads, sweeps, located, named, apiVars>>

\* file_path.stat().st_size
GetFileSizeStat ==
    /\ sized.pc = "stat"
    /\ sized' = get_file_size_stat(sized, audio)
    /\ UNCHANGED <<loaded_voices, models, audio, tasks, constructed, nGet,
                   partialLoads, sweeps, located, named, apiVars>>

(***************************************************************************)
(* The history store: ConversionHistory (models/database.py) behind         *)
(* DatabaseService (services/database_service.py).                          *)
(***************************************************************************)
HasRow(rows, conversion_id) == \E i \in DOMAIN rows : rows[i].id = conversion_id

\* SELECT * FROM conversions WHERE id = ?: the row in a sequence, <<>> for None.
get_conversion(rows, conversion_id) ==
    SelectSeq(rows, LAMBDA r : r.id = conversion_id)

delete_conversion_oldest(rows, conversion_id) ==
    [rows |-> IF HasRow(rows, conversion_id) THEN Tail(rows) ELSE rows,
     deleted |-> HasRow(rows, conversion_id)]

\* DELETE FROM conversions WHERE id = ?; cursor.rowcount > 0
delete_conversion(rows, conversion_id) ==
    [rows |-> SelectSeq(rows, LAMBDA r : r.id # conversion_id),
     deleted |-> HasRow(rows, conversion_id)]

Reverse(s) == [i \in 1..Len(s) |-> s[Len(s) + 1 - i]]

\* SELECT * FROM conversions ORDER BY created_at DESC LIMIT ? OFFSET ?
\* In SQLite a negative LIMIT is no limit and a negative OFFSET is 0.
get_history(rows, limit, offset) ==
    LET ordered == Reverse(rows)
        rest == SubSeq(ordered, (IF offset < 0 THEN 0 ELSE offset) + 1, Len(ordered))
    IN  IF limit < 0 THEN rest ELSE Truncate(rest, limit)

\* DatabaseService.get_conversion_history: the items of the response.
HistoryItem(record) ==
    [id |-> record.id, title |-> record.title, status |-> record.status,
     file_size |-> record.file_size,
     download_url |-> IF record.status = "completed" /\ record.file_path # NoPath
                      THEN <<"/download/", record.id>>
                      ELSE NoPath]

get_conversion_history(rows, limit, offset) ==
    LET records == get_history(rows, limit, offset)
    IN  [i \in 1..Len(records) |-> HistoryItem(records[i])]

\* DatabaseService.delete_conversion_record(conversion_id)
DeleteRecord(conversion_id) ==
    LET r == delete_conversion(conversions, conversion_id)
    IN  /\ conversions' = r.rows
        /\ answer' = [NoAnswer EXCEPT !.call = "delete_conversion_record",
                                      !.conversion_id = conversion_id,
                                      !.ret = r.deleted]
        /\ UNCHANGED <<loaded_voices, models, audio, tasks, constructed, nGet,
                       partialLoads, sweeps, located, named, sized, replies,
                       scheduled>>

\* main.py, get_conversion_history: GET /history?limit=..&offset=..
GetHistory(limit, offset) ==
    LET capped == IF limit > HistoryLimitCap THEN HistoryLimitCap ELSE limit
    IN  /\ answer' = [NoAnswer EXCEPT !.call = "GET /history", !.code = 200,
                                      !.limit = capped,
                                      !.items = get_conversion_history(
                                                    conversions, capped, offset)]
        /\ UNCHANGED <<loaded_voices, models, audio, tasks, constructed, nGet,
                       partialLoads, sweeps, located, named, sized, conversions,
                       replies, scheduled>>

delete_conversion_history_file_first(rows, files, conversion_id, audio_file, unlinkOk) ==
    LET r == delete_conversion(rows, conversion_id)
        gone == audio_file # NoPath /\ exists(files, audio_file) /\ unlinkOk
    IN  [rows |-> r.rows,
         files |-> IF gone THEN unlink(files, audio_file) ELSE files,
         code |-> IF r.deleted THEN 200 ELSE 404,
         unlinked |-> IF gone THEN audio_file ELSE NoPath]

\* main.py, delete_conversion_history, given what get_audio_file_path returns
\* and whether unlink succeeds: 404 when there was no row; otherwise the file
\* is unlinked if there is one, a failure is logged, and the answer is 200.
delete_conversion_history(rows, files, conversion_id, audio_file, unlinkOk) ==
    LET r == delete_conversion(rows, conversion_id)
    IN  IF ~r.deleted
        THEN [rows |-> r.rows, files |-> files, code |-> 404, unlinked |-> NoPath]
        ELSE IF audio_file # NoPath /\ exists(files, audio_file) /\ unlinkOk
        THEN [rows |-> r.rows, files |-> unlink(files, audio_file), code |-> 200,
              unlinked |-> audio_file]
        ELSE [rows |-> r.rows, files |-> files, code |-> 200, unlinked |-> NoPath]

\* DELETE /history/{conversion_id}
DeleteHistory(conversion_id, unlinkOk) ==
    \E audio_file \in get_audio_file_path(audio, conversion_id) :
        LET r == delete_conversion_history(conversions, audio, conversion_id,
                                           audio_file, unlinkOk)
        IN  /\ conversions' = r.rows
            /\ audio' = r.files
            /\ answer' = [NoAnswer EXCEPT !.call = "DELETE /history",
                                          !.conversion_id = conversion_id,
                                          !.code = r.code,
                                          !.unlinked = r.unlinked]
            /\ UNCHANGED <<loaded_voices, models, tasks, constructed, nGet,
                           partialLoads, sweeps, located, named, sized, replies,
                       scheduled>>

(***************************************************************************)
(* main.py, convert_markdown_to_speech (POST /convert).  markdown_text is a *)
(* sequence of blocks: "word" (a paragraph of text), "code" (a fenced code  *)
(* block) or " " (white space).                                             *)
(***************************************************************************)
Markdowns == {<<>>, <<"code", " ">>, <<"code", " ", "word">>}

RECURSIVE strip(_)
strip(text) ==
    IF text # <<>> /\ text[1] = " " THEN strip(Tail(text)) ELSE rstrip(text)

\* MarkdownProcessor.extract_text: code blocks are removed, the white space
\* at both ends is stripped.
extract_text(markdown_text) ==
    strip(SelectSeq(markdown_text, LAMBDA block : block # "code"))

\* INSERT INTO conversions; a second row with the same id raises.
add_conversion(rows, row) ==
    IF HasRow(rows, row.id)
    THEN [rows |-> rows, raised |-> TRUE]
    ELSE [rows |-> Append(rows, row), raised |-> FALSE]

\* UPDATE conversions SET status = ?, file_size = ?, file_path = ? WHERE id = ?
\* for the arguments that are not None (file_size -1, file_path <<>>).
update_conversion(rows, conversion_id, status, file_size, file_path) ==
    [i \in 1..Len(rows) |->
        IF rows[i].id # conversion_id THEN rows[i]
        ELSE [rows[i] EXCEPT !.status = status,
                             !.file_size = IF file_size # -1 THEN file_size ELSE @,
                             !.file_path = IF file_path # NoPath THEN file_path ELSE @]]

\* DatabaseService.update_conversion_failed
update_conversion_failed(rows, conversion_id, error) ==
    update_conversion(rows, conversion_id, "failed: " \o error, -1, NoPath)

\* get_file_size where nothing runs beside it.
get_file_size(files, file_path) ==
    IF exists(files, file_path) THEN st_size(files, file_path) ELSE 0

\* Lines 149-166: the row of a conversion that succeeded.  db says where the
\* database fails, if it does: "insert_fails", "update_fails" or "ok".
record_success(rows, files, conversion_id, title, audio_file, db) ==
    LET added == add_conversion(rows, Row(conversion_id, title, "pending", -1, NoPath))
    IN  IF db = "insert_fails" \/ added.raised THEN rows
        ELSE IF db = "update_fails" THEN added.rows
        ELSE update_conversion(added.rows, conversion_id, "completed",
                               get_file_size(files, audio_file), audio_file)

\* Lines 184-192.  conversion_id is the local of the handler: line 145
\* assigns it when convert_text_to_speech returns, so it is None here.
record_failure(rows, conversion_id, error, db) ==
    IF conversion_id # None /\ db = "ok"
    THEN update_conversion_failed(rows, conversion_id, error)
    ELSE rows

\* The request is turned down: 422 by the request model (min_length=1), 400
\* at line 142.
Reject(t, markdown_text, code) ==
    /\ tasks[t].pc = "idle"
    /\ \A u \in Tasks : u < t => tasks[u].pc # "idle"
    /\ tasks' = [tasks EXCEPT ![t] = [IdleTask EXCEPT !.pc = "rejected"]]
    /\ replies' = [replies EXCEPT ![t] =
                      [NoReply EXCEPT !.arrived = TRUE, !.markdown_text = markdown_text,
                                      !.code = code, !.detail = "rejected"]]
    /\ UNCHANGED <<loaded_voices, models, audio, constructed, nGet, partialLoads,
                   sweeps, located, named, sized, conversions, answer, scheduled>>

PostConvert_no_check(t, markdown_text, title, voice_arg, loadOk, synth) ==
    IF markdown_text = <<>>
    THEN Reject(t, markdown_text, 422)
    ELSE /\ get_voice(t, "convert", voice_arg, title, loadOk, synth)
         /\ replies' = [replies EXCEPT ![t] =
                           [NoReply EXCEPT !.arrived = TRUE,
                                           !.markdown_text = markdown_text]]
         /\ UNCHANGED <<sweeps, located, named, sized, conversions, answer, scheduled>>

\* Lines 136-147, up to the first await of convert_text_to_speech.
PostConvert(t, markdown_text, title, voice_arg, loadOk, synth) ==
    IF markdown_text = <<>>
    THEN Reject(t, markdown_text, 422)
    ELSE IF strip(extract_text(markdown_text)) = <<>>
    THEN Reject(t, markdown_text, 400)
    ELSE /\ get_voice(t, "convert", voice_arg, title, loadOk, synth)
         /\ replies' = [replies EXCEPT ![t] =
                           [NoReply EXCEPT !.arrived = TRUE,
                                           !.markdown_text = markdown_text]]
         /\ UNCHANGED <<sweeps, located, named, sized, conversions, answer, scheduled>>

\* The background tasks are added on the failure path as well.
ConvertReply_schedules_on_failure(t, db) ==
    LET rec == tasks[t]
    IN  /\ rec.op = "convert"
        /\ rec.pc \in {"returned", "raised"}
        /\ replies[t].code = 0
        /\ IF rec.pc = "returned"
           THEN /\ conversions' = record_success(conversions, audio, rec.id, rec.title,
                                                 rec.ret, db)
                /\ scheduled' = scheduled \o
                       <<[request |-> t, func |-> "tts_service.cleanup_old_files"],
                         [request |-> t, func |-> "db_service.cleanup_old_records"]>>
                /\ replies' = [replies EXCEPT ![t] =
                                  [@ EXCEPT !.code = 200, !.conversion_id = rec.id,
                                            !.status = "completed",
                                            !.download_url = <<"/download/", rec.id>>]]
           ELSE /\ conversions' = record_failure(conversions, None, rec.err, db)
                /\ replies' = [replies EXCEPT ![t] =
                                  [@ EXCEPT !.code = 500, !.detail = rec.err]]
                /\ scheduled' = scheduled \o
                       <<[request |-> t, func |-> "tts_service.cleanup_old_files"],
                         [request |-> t, func |-> "db_service.cleanup_old_records"]>>
        /\ UNCHANGED <<loaded_voices, models, audio, tasks, constructed, nGet,
                       partialLoads, sweeps, located, named, sized, answer>>

\* An error of the history store is not caught.
ConvertReply_db_error_fails(t, db) ==
    LET rec == tasks[t]
    IN  /\ rec.op = "convert"
        /\ rec.pc \in {"returned", "raised"}
        /\ replies[t].code = 0
        /\ IF rec.pc = "returned"
           THEN /\ conversions' = record_success(conversions, audio, rec.id, rec.title,
                                                 rec.ret, db)
                /\ scheduled' = scheduled \o
                       <<[request |-> t, func |-> "tts_service.cleanup_old_files"],
                         [request |-> t, func |-> "db_service.cleanup_old_records"]>>
                /\ replies' = [replies EXCEPT ![t] =
                                  IF db = "ok"
                                  THEN [@ EXCEPT !.code = 200, !.conversion_id = rec.id,
                                                 !.status = "completed",
                                                 !.download_url = <<"/download/", rec.id>>]
                                  ELSE [@ EXCEPT !.code = 500, !.detail = "db"]]
           ELSE /\ conversions' = record_failure(conversions, None, rec.err, db)
                /\ replies' = [replies EXCEPT ![t] =
                                  [@ EXCEPT !.code = 500, !.detail = rec.err]]
                /\ UNCHANGED scheduled
        /\ UNCHANGED <<loaded_voices, models, audio, tasks, constructed, nGet,
                       partialLoads, sweeps, located, named, sized, answer>>

\* Lines 149-179 after convert_text_to_speech returned, lines 184-194 after
\* it raised.
ConvertReply(t, db) ==
    LET rec == tasks[t]
    IN  /\ rec.op = "convert"
        /\ rec.pc \in {"returned", "raised"}
        /\ replies[t].code = 0
        /\ IF rec.pc = "returned"
           THEN /\ conversions' = record_success(conversions, audio, rec.id, rec.title,
                                                 rec.ret, db)
                /\ scheduled' = scheduled \o
                       <<[request |-> t, func |-> "tts_service.cleanup_old_files"],
                         [request |-> t, func |-> "db_service.cleanup_old_records"]>>
                /\ replies' = [replies EXCEPT ![t] =
                                  [@ EXCEPT !.code = 200, !.conversion_id = rec.id,
                                            !.status = "completed",
                                            !.download_url = <<"/download/", rec.id>>]]
           ELSE /\ conversions' = record_failure(conversions, None, rec.err, db)
                /\ replies' = [replies EXCEPT ![t] =
                                  [@ EXCEPT !.code = 500, !.detail = rec.err]]
                /\ UNCHANGED scheduled
        /\ UNCHANGED <<loaded_voices, models, audio, tasks, constructed, nGet,
                       partialLoads, sweeps, located, named, sized, answer>>

Next ==
    \/ \E t \in Tasks, voice_arg \in VoiceIds \cup {None}, title \in Titles,
          loadOk \in BOOLEAN, synth \in SynthOutcomes :
          Convert(t, voice_arg, title, loadOk, synth)
    \/ \E t \in Tasks, status200 \in BOOLEAN : ModelResponse(t, status200)
    \/ \E t \in Tasks, streamOk \in BOOLEAN : ModelChunks(t, streamOk)
    \/ \E t \in Tasks, status200 \in BOOLEAN : ConfigResponse(t, status200)
    \/ \E t \in Tasks, streamOk \in BOOLEAN, title \in Titles, loadOk \in BOOLEAN,
          synth \in SynthOutcomes :
          ConfigChunks(t, streamOk, title, loadOk, synth)
    \/ \E t \in Tasks, outcome \in {"ok", "nonzero", "notfound"}, leavesOutput \in BOOLEAN :
          EncoderExit(t, outcome, leavesOutput)

Spec == Init /\ [][Next]_vars

NextAcquire ==
    \/ \E t \in Tasks, voice_arg \in VoiceIds \cup {None}, loadOk \in BOOLEAN :
          GetVoice(t, voice_arg, loadOk)
    \/ \E t \in Tasks, status200 \in BOOLEAN : ModelResponse(t, status200)
    \/ \E t \in Tasks, streamOk \in BOOLEAN : ModelChunks(t, streamOk)
    \/ \E t \in Tasks, status200 \in BOOLEAN : ConfigResponse(t, status200)
    \/ \E t \in Tasks, streamOk \in BOOLEAN, loadOk \in BOOLEAN :
          ConfigChunks(t, streamOk, NoTitle, loadOk, "ok")

SpecAcquire == InitAcquire /\ [][NextAcquire]_vars

NextStore ==
    \/ \E s \in Sweeps, max_age_days \in MaxAgeDays : CleanupStart(s, max_age_days)
    \/ \E s \in Sweeps : \E name \in sweeps[s].todo : CleanupIsFile(s, name)
    \/ \E s \in Sweeps, unlinkOk \in BOOLEAN : CleanupFile(s, unlinkOk)

SpecStore == InitStore /\ [][NextStore]_vars

NextLocate == \E conversion_id \in QueryIds : Status(conversion_id)

SpecLocate == InitStore /\ [][NextLocate]_vars

NextName == \E n \in Tasks : Filename(n)

\* POST /convert requests from arrival to answer.
NextConvert ==
    \/ \E t \in Tasks, markdown_text \in Markdowns, voice_arg \in {None, UnknownVoice},
          synth \in {"ok", "synth_error"} :
          PostConvert(t, markdown_text, NoTitle, voice_arg, TRUE, synth)
    \/ \E t \in Tasks, outcome \in {"ok", "notfound"} : EncoderExit(t, outcome, FALSE)
    \/ \E t \in Tasks, db \in {"ok", "insert_fails", "update_fails"} : ConvertReply(t, db)

SpecConvert == InitConvert /\ [][NextConvert]_vars

\* Deletions, through the store and through the endpoint.
NextHistory ==
    \/ \E conversion_id \in QueryIds : DeleteRecord(conversion_id)
    \/ \E conversion_id \in QueryIds, unlinkOk \in BOOLEAN :
          DeleteHistory(conversion_id, unlinkOk)

SpecHistory == InitHistory /\ [][NextHistory]_vars

NextLimit == \E limit \in Limits, offset \in Offsets : GetHistory(limit, offset)

SpecLimit == InitLimit /\ [][NextLimit]_vars

\* get_file_size while cleanup_old_files runs.
NextSize ==
    \/ \E file_path \in SizePaths : GetFileSizeExists(file_path)
    \/ GetFileSizeStat
    \/ NextStore

SpecSize == InitStore /\ [][NextSize]_vars

SpecName == InitName /\ [][NextName]_vars

\* convert_text_to_speech calls on the event loop and cleanup_old_files runs
\* in their threads, with the default max_age_days.
NextJobs ==
    \/ \E t \in Tasks : Convert(t, None, NoTitle, TRUE, "ok")
    \/ \E t \in Tasks, outcome \in {"ok", "notfound"} : EncoderExit(t, outcome, FALSE)
    \/ \E s \in Sweeps : CleanupStart(s, DefaultMaxAgeDays)
    \/ \E s \in Sweeps : \E name \in sweeps[s].todo : CleanupIsFile(s, name)
    \/ \E s \in Sweeps : CleanupFile(s, TRUE)

SpecJobs == InitJobs /\ [][NextJobs]_vars

\* What request t does when the response or the exit it awaits has come.
Resume(t) ==
    \/ ModelResponse(t, TRUE)
    \/ ModelChunks(t, TRUE)
    \/ ConfigResponse(t, TRUE)
    \/ ConfigChunks(t, TRUE, NoTitle, TRUE, "ok")
    \/ EncoderExit(t, "ok", FALSE)

\* The request whose download or encoder may never end.
Stalled == 1

\* convert_text_to_speech calls on a fresh storage directory.  The event
\* loop resumes a request once what it awaits is there; for every request
\* but the stalled one it comes in the end (aiohttp and the encoder are
\* awaited with no timeout, so nothing else resumes a request).
NextStall ==
    \/ \E t \in Tasks, voice_arg \in {None, "en_GB-alan-medium"} :
          Convert(t, voice_arg, NoTitle, TRUE, "ok")
    \/ \E t \in Tasks : Resume(t)

SpecStall ==
    /\ Init
    /\ [][NextStall]_vars
    /\ \A t \in Tasks \ {Stalled} : WF_vars(Resume(t))

(***************************************************************************)
(* Properties.                                                             *)
(***************************************************************************)
Loading(voice_id) == {t \in Tasks : tasks[t].voice = voice_id /\ tasks[t].pc \in LoadPcs}

Finished(t) == tasks[t].pc \in {"returned", "raised"}

FileAt(name) == {f \in audio : f.name = name}

FilesOfJob(id) == {f \in audio : StartsWith(f.name, <<id>>)}

OnDisk(voice_id) ==
    models[voice_id].model # "absent" /\ models[voice_id].config # "absent"

\* C1: concurrent get_voice calls for one voice id that is neither cached nor
\* on disk run one download-and-load sequence: at no time are two callers
\* inside the download of the same voice id.
C1_OneLoadSequencePerVoice ==
    \A v \in VoiceIds : Cardinality(Loading(v)) <= 1

\* C2: at most one engine is ever constructed per voice id, every caller gets
\* that engine, and the cache entry of an id is never replaced.
C2_OneEnginePerVoice ==
    /\ \A v \in VoiceIds : constructed[v] <= 1
    /\ \A t \in Tasks :
          tasks[t].engine # 0 => tasks[t].engine = loaded_voices[tasks[t].voice]

\* C3: when the encoder is missing or exits non-zero, convert returns a path
\* that exists, ends in .wav and holds the audio synthesized for the job.
C3_FallbackReturnsWav ==
    \A t \in Tasks :
        (/\ tasks[t].voice \in DOMAIN VOICE_MODELS
         /\ tasks[t].pc = "returned"
         /\ tasks[t].tr \in {"notfound", "nonzero"}) =>
            /\ tasks[t].ret[Len(tasks[t].ret)] = ".wav"
            /\ \E f \in FileAt(tasks[t].ret) : f.data = "pcm" /\ f.job = tasks[t].id

\* C4: a transcoding problem never reaches the caller of convert: a request
\* whose encoder has ended has returned, and a request that raised did so in
\* engine acquisition or in synthesis.
C4_TranscodeErrorsAbsorbed ==
    \A t \in Tasks :
        /\ tasks[t].tr # "none" => tasks[t].pc = "returned"
        /\ tasks[t].pc = "raised" =>
              tasks[t].err \in {"unknown_voice", "download", "load", "synthesis"}

C4_Witness ==
    /\ \E t \in Tasks : tasks[t].pc = "returned" /\ tasks[t].tr = "notfound"
    /\ \E t \in Tasks : tasks[t].pc = "returned" /\ tasks[t].tr = "nonzero"

\* C5: whenever convert returns (jobId, path) for a voice id of the catalog,
\* the file name of path starts with jobId and the file exists with audio in
\* it, however transcoding ended.
C5_ReturnedArtifactExists ==
    \A t \in Tasks :
        tasks[t].voice \in DOMAIN VOICE_MODELS /\ tasks[t].pc = "returned" =>
            /\ StartsWith(tasks[t].ret, <<tasks[t].id>>)
            /\ \E f \in FileAt(tasks[t].ret) : f.data \in {"pcm", "mp3"}

\* C6: a failed synthesis raises to the caller, the encoder is never run for
\* the job, and no file whose name starts with the job id is left.
C6_SynthesisFailureLeavesNoFile ==
    \A t \in Tasks :
        tasks[t].err = "synthesis" =>
            /\ tasks[t].pc = "raised"
            /\ tasks[t].tr = "none"
            /\ tasks[t].ran = <<"acquire", "synthesize">>
            /\ FilesOfJob(tasks[t].id) = {}

C6_Witness ==
    \E t \in Tasks :
        tasks[t].err = "synthesis" /\ tasks[t].title # NoTitle /\ tasks[t].id # None

\* C7: a job moves only along Created -> Synthesizing -> Transcoding ->
\* Completed | FallbackCompleted, or Synthesizing -> Failed; it never fails
\* after synthesis, and no stage is run twice for a job.
StageSteps ==
    {<<"Created", "Synthesizing">>, <<"Synthesizing", "Transcoding">>,
     <<"Synthesizing", "Failed">>, <<"Transcoding", "Completed">>,
     <<"Transcoding", "FallbackCompleted">>}

C7_JobStateMachine ==
    \A t \in Tasks :
        LET s == tasks[t].stages
            r == tasks[t].ran
        IN  /\ s # <<>> => s[1] = "Created"
            /\ \A i \in 1..(Len(s) - 1) : <<s[i], s[i + 1]>> \in StageSteps
            /\ \A i, j \in 1..Len(r) : i # j => r[i] # r[j]
            /\ Finished(t) /\ s # <<>> =>
                  s[Len(s)] \in {"Completed", "FallbackCompleted", "Failed"}

C7_Witness ==
    /\ \E t \in Tasks :
          tasks[t].stages = <<"Created", "Synthesizing", "Transcoding", "FallbackCompleted">>
    /\ \E t \in Tasks :
          tasks[t].stages = <<"Created", "Synthesizing", "Transcoding", "Completed">>

\* C8 as claimed: get_voice of an id that is not in the catalog fails with the
\* unknown-voice error whatever is on disk, with no request, no file, no engine.
C8_UnknownVoiceAlwaysFails ==
    \A t \in Tasks :
        tasks[t].voice = UnknownVoice =>
            /\ tasks[t].pc = "raised" /\ tasks[t].err = "unknown_voice"
            /\ loaded_voices[UnknownVoice] = 0
            /\ nGet[UnknownVoice] = 0

\* C8 amended: get_voice of an id that is not in the catalog fails with the
\* unknown-voice error, with no request, no file created and no engine cached,
\* unless both model files of that id are already on disk: then the catalog is
\* not consulted and the call does not end in the unknown-voice error.
C8_UnknownVoiceFailsUnlessOnDisk ==
    \A t \in Tasks :
        tasks[t].voice = UnknownVoice =>
            IF OnDisk(UnknownVoice)
            THEN tasks[t].err # "unknown_voice"
            ELSE /\ tasks[t].pc = "raised" /\ tasks[t].err = "unknown_voice"
                 /\ loaded_voices[UnknownVoice] = 0
                 /\ constructed[UnknownVoice] = 0
                 /\ nGet[UnknownVoice] = 0
                 /\ models[UnknownVoice] = [model |-> "absent", config |-> "absent"]

C8_Witness ==
    \E t \in Tasks :
        /\ tasks[t].voice = UnknownVoice
        /\ tasks[t].err = "unknown_voice"
        /\ ~OnDisk(UnknownVoice)

\* C9: no load attempt takes a partially written model or config file for a
\* valid one.
C9_NoLoadFromPartialFile == partialLoads = {}

\* C10: after a load attempt has failed in a download, no partially written
\* model or config file of that voice remains (no other download of the voice
\* being in progress).
C10_FailedDownloadLeavesNoPartialFile ==
    \A t \in Tasks :
        tasks[t].err = "download" /\ Loading(tasks[t].voice) = {} =>
            /\ models[tasks[t].voice].model \notin Incomplete
            /\ models[tasks[t].voice].config \notin Incomplete

\* A request has been started by this step.
Started(t) == tasks[t].pc = "idle" /\ tasks'[t].pc # "idle"

\* The started request went through the load sequence without any request
\* to the network.
SkippedNetwork(t) ==
    /\ nGet' = nGet
    /\ tasks'[t].pc \notin LoadPcs
    /\ tasks'[t].err \notin {"unknown_voice", "download"}

\* C11 as claimed: the load sequence of a voice id of the catalog skips the
\* network only when the model file and the config file are both present and
\* non-empty.
C11_SkipsOnlyWhenNonEmpty ==
    [][\A t \in Tasks :
          Started(t) /\ tasks'[t].voice \in DOMAIN VOICE_MODELS
                     /\ ~is_loaded(loaded_voices, tasks'[t].voice)
                     /\ SkippedNetwork(t) =>
              /\ models[tasks'[t].voice].model \notin {"absent", "empty"}
              /\ models[tasks'[t].voice].config \notin {"absent", "empty"}]_vars

\* C11 amended: for a voice id of the catalog that is not cached, the load
\* sequence skips the network exactly when the model file and the config file
\* both exist, empty or not; if either is missing, the download starts with
\* the model file and no engine is constructed before the config file, the
\* second of the two downloads, has been written.
C11_SkipsExactlyWhenBothExist ==
    [][\A t \in Tasks :
          LET v == tasks'[t].voice
          IN  /\ Started(t) /\ v \in DOMAIN VOICE_MODELS /\ ~is_loaded(loaded_voices, v) =>
                    /\ SkippedNetwork(t) <=> OnDisk(v)
                    /\ ~OnDisk(v) =>
                          /\ tasks'[t].pc = "get_model"
                          /\ nGet'[v] = nGet[v] + 1
                          /\ constructed' = constructed
              /\ tasks[t].pc \in LoadPcs /\ tasks'[t].engine # 0 =>
                    /\ tasks[t].pc = "write_config"
                    /\ nGet[v] >= 2]_vars

C11_Witness ==
    \E t, u \in Tasks :
        /\ tasks[t].voice \in DOMAIN VOICE_MODELS
        /\ tasks[u].voice = tasks[t].voice
        /\ tasks[t].err = "download"
        /\ tasks[u].err = "load"
        /\ nGet[tasks[t].voice] = 2
        /\ models[tasks[t].voice] = [model |-> "complete", config |-> "empty"]

\* C12: when <voice_id>.onnx and <voice_id>.onnx.json both exist, whether or
\* not the id is in the catalog, _download_voice_model returns the model path:
\* no request is made, neither file is changed, and PiperVoice.load is what
\* runs next.
C12_ExistingFilesAreReused ==
    [][\A t \in Tasks :
          Started(t) /\ ~is_loaded(loaded_voices, tasks'[t].voice)
                     /\ OnDisk(tasks'[t].voice) =>
              /\ nGet' = nGet
              /\ models' = models
              /\ tasks'[t].pc \notin LoadPcs
              /\ \/ tasks'[t].err = "load"
                 \/ tasks'[t].engine = constructed[tasks'[t].voice] + 1]_vars

C12_Witness ==
    \E t \in Tasks :
        /\ tasks[t].voice = UnknownVoice
        /\ tasks[t].engine # 0
        /\ nGet[UnknownVoice] = 0
        /\ models[UnknownVoice] = [model |-> "complete", config |-> "complete"]

\* C13: a get_voice that starts when the voice id has an engine in the cache
\* gets that engine in the same step: it is not suspended, no request is made,
\* no file is written and no engine is constructed.
C13_CachedEngineReturnedAtOnce ==
    [][\A t \in Tasks :
          Started(t) /\ loaded_voices[tasks'[t].voice] # 0 =>
              /\ tasks'[t].engine = loaded_voices[tasks'[t].voice]
              /\ tasks'[t].pc \notin LoadPcs
              /\ nGet' = nGet
              /\ models' = models
              /\ constructed' = constructed
              /\ loaded_voices' = loaded_voices]_vars

C13_Witness ==
    \E t, u \in Tasks :
        /\ t < u
        /\ tasks[t].engine = 1
        /\ tasks[u].engine = 1
        /\ tasks[u].voice = tasks[t].voice
        /\ constructed[tasks[t].voice] = 1
        /\ nGet[tasks[t].voice] = 2

\* C14: an id that has an engine in the cache has one in every later state,
\* whatever the requests do and however they end.
C14_CacheNeverEvicts ==
    [][\A v \in VoiceIds : loaded_voices[v] # 0 => loaded_voices'[v] # 0]_vars

C14_Witness ==
    \E t, u \in Tasks :
        /\ tasks[t].pc = "raised"
        /\ tasks[u].engine # 0
        /\ tasks[t].voice # tasks[u].voice
        /\ loaded_voices[tasks[t].voice] # 0
        /\ loaded_voices[tasks[u].voice] # 0

\* C15: when the load sequence of a voice id fails while other callers are
\* in the load of that id, each of them fails in that same step with that
\* same error.
C15_WaitersShareFailure ==
    [][\A t, u \in Tasks :
          (/\ t # u
           /\ tasks[t].voice = tasks[u].voice
           /\ tasks[t].pc \in LoadPcs
           /\ tasks[u].pc \in LoadPcs
           /\ tasks'[t].pc = "raised") =>
              /\ tasks'[u].pc = "raised"
              /\ tasks'[u].err = tasks'[t].err]_vars

\* The next step of the load sequence of request t, every response being good.
LoadStep(t) ==
    \/ ModelResponse(t, TRUE)
    \/ ModelChunks(t, TRUE)
    \/ ConfigResponse(t, TRUE)
    \/ ConfigChunks(t, TRUE, NoTitle, TRUE, "ok")

\* C16: a request in the load sequence of one voice id can take its next step
\* whatever a request for another voice id is doing, and a request for a
\* voice id can be started while the load of another id is in progress.
C16_LoadsOfOtherVoicesProceed ==
    \A t, u \in Tasks :
        tasks[u].pc \in LoadPcs /\ tasks[u].voice # tasks[t].voice =>
            /\ tasks[t].pc \in LoadPcs => ENABLED LoadStep(t)
            /\ tasks[t].pc = "idle" /\ (\A w \in Tasks : w < t => tasks[w].pc # "idle") =>
                  \A v \in DOMAIN VOICE_MODELS : ENABLED GetVoice(t, v, TRUE)

C16_Witness ==
    \E t, u \in Tasks :
        /\ t < u
        /\ tasks[t].pc = "get_model"
        /\ tasks[u].voice # tasks[t].voice
        /\ tasks[u].voice \in DOMAIN VOICE_MODELS
        /\ tasks[u].engine # 0
        /\ nGet[tasks[u].voice] = 2

\* The file was last modified more than days days before the current time.
OlderThan(f, days) == f.mtime < time_time - days * SecondsPerDay

\* C17 as claimed: when cleanup_old_files(max_age_days) has returned, no file
\* older than max_age_days days is left in the audio directory, and the files
\* it deleted were all older than that.
C17_SweepRemovesEveryOldFile ==
    \A s \in Sweeps :
        sweeps[s].pc = "done" =>
            /\ \A f \in audio : ~OlderThan(f, sweeps[s].max_age_days)
            /\ \A e \in sweeps[s].deleted : e.age > sweeps[s].max_age_days * SecondsPerDay

\* C17 amended: when cleanup_old_files(max_age_days) has returned, the only
\* files older than max_age_days days left in the audio directory are those
\* whose deletion failed; the files it deleted were all older than that and
\* are gone.
C17_SweepRemovesOldFilesUnlessUnlinkFails ==
    \A s \in Sweeps :
        sweeps[s].pc = "done" =>
            /\ \A f \in audio :
                  OlderThan(f, sweeps[s].max_age_days) => f.name \in sweeps[s].errors
            /\ \A e \in sweeps[s].deleted :
                  /\ e.age > sweeps[s].max_age_days * SecondsPerDay
                  /\ ~exists(audio, e.name)

C17_Witness ==
    \E s \in Sweeps :
        /\ sweeps[s].pc = "done"
        /\ sweeps[s].max_age_days = 7
        /\ \E e \in sweeps[s].deleted : e.age = 8 * SecondsPerDay
        /\ \E f \in audio : f.mtime = time_time - 6 * SecondsPerDay

\* C18 as claimed: cleanup_old_files returns the number of files it removed.
C18_SweepReturnsCount ==
    \A s \in Sweeps :
        sweeps[s].pc = "done" => sweeps[s].ret = <<Cardinality(sweeps[s].deleted)>>

\* C18 amended: cleanup_old_files returns None; what it reports is its log.
\* Every file it logged as deleted is one it removed, and a file whose
\* deletion failed is logged as an error, never as deleted.
C18_SweepReturnsNoneAndLogsRemovals ==
    \A s \in Sweeps :
        /\ sweeps[s].pc = "done" => sweeps[s].ret = NoPath
        /\ \A e \in sweeps[s].deleted :
              ~exists(audio, e.name) /\ e.name \notin sweeps[s].errors

C18_Witness ==
    \E s \in Sweeps :
        /\ sweeps[s].pc = "done"
        /\ sweeps[s].ret = NoPath
        /\ Cardinality(sweeps[s].deleted) = 1
        /\ Cardinality(sweeps[s].errors) = 1

\* C19: a failing unlink does not end the run: the step logs the error,
\* leaves the directory and the names still to examine as they are and goes
\* on; a run that returns has examined every name it listed, and every file
\* past the age that is still there is one whose deletion failed.
C19_UnlinkFailureIsSkipped ==
    [][\A s \in Sweeps :
          /\ sweeps[s].pc = "stat" /\ sweeps'[s].errors # sweeps[s].errors =>
                /\ sweeps'[s].pc \in {"iter", "done"}
                /\ sweeps'[s].errors = sweeps[s].errors \cup {sweeps[s].file}
                /\ sweeps'[s].todo = sweeps[s].todo
                /\ audio' = audio
          /\ sweeps'[s].pc = "done" =>
                /\ sweeps'[s].todo = {}
                /\ \A f \in audio' :
                      OlderThan(f, sweeps'[s].max_age_days) =>
                          f.name \in sweeps'[s].errors]_vars

C19_Witness ==
    \E s \in Sweeps :
        /\ sweeps[s].pc = "stat"
        /\ sweeps[s].errors # {}
        /\ OlderThan(CHOOSE f \in audio : f.name = sweeps[s].file, sweeps[s].max_age_days)

\* C20: GET /status of an id that no file name in the audio directory starts
\* with finds no path (None) and answers not_found.
C20_UnknownIdIsNotFound ==
    located.conversion_id # None /\ FilesOfJob(located.conversion_id) = {} =>
        /\ located.audio_file = NoPath
        /\ located.status = "not_found"

\* C30: when the encoder exits with code zero, the job ends Completed and
\* convert returns the .mp3 path: the job's .wav file is gone and the .mp3
\* file is the only file of the audio directory whose name starts with the
\* job id.
C30_TranscodeSuccessLeavesOnlyMp3 ==
    \A t \in Tasks :
        (tasks[t].pc = "returned" /\ tasks[t].tr = "ok") =>
            /\ tasks[t].stages[Len(tasks[t].stages)] = "Completed"
            /\ tasks[t].ret = with_suffix(tasks[t].file, ".mp3")
            /\ tasks[t].ret[Len(tasks[t].ret)] = ".mp3"
            /\ ~exists(audio, tasks[t].file)
            /\ FileAt(tasks[t].ret) # {}
            /\ FilesOfJob(tasks[t].id) = FileAt(tasks[t].ret)
            /\ \A f \in FileAt(tasks[t].ret) : f.data = "mp3"

C30_Witness ==
    \E t \in Tasks :
        /\ tasks[t].pc = "returned"
        /\ tasks[t].tr = "ok"
        /\ tasks[t].title # NoTitle
        /\ \E u \in Tasks : u # t /\ FilesOfJob(tasks[u].id) # {}

\* C21: what get_audio_file_path(conversion_id) returns, when it returns a
\* path, is a file of the audio directory whose name starts with
\* conversion_id and ends in .mp3 or .wav, and it ends in .wav only when no
\* .mp3 file whose name starts with conversion_id exists.
C21_ResolvedFileBelongsToId ==
    located.audio_file # NoPath =>
        /\ exists(audio, located.audio_file)
        /\ StartsWith(located.audio_file, <<located.conversion_id>>)
        /\ located.audio_file[Len(located.audio_file)] \in Suffixes
        /\ located.audio_file[Len(located.audio_file)] = ".wav" =>
              ~\E f \in FilesOfJob(located.conversion_id) : f.name[Len(f.name)] = ".mp3"

\* The part of the file name before its extension, and what follows the job
\* id and the underscore in it.
BaseName == SubSeq(named.filename, 1, Len(named.filename) - 1)

Fragment == SubSeq(BaseName, 3, Len(BaseName))

\* [A-Za-z0-9 _-]
InAsciiClass(c) == c \in (Alnum \ {"é"}) \cup {" ", "_", "-"}

\* frag is title without the characters Keep rejects, in the order of the
\* title, without trailing spaces, cut after TitleMax characters.
IsFragmentOf(frag, title, Keep(_)) ==
    LET kept == SelectSeq(title, Keep)
    IN  /\ StartsWith(kept, frag)
        /\ Len(frag) <= TitleMax
        /\ \A i \in (Len(frag) + 1)..Len(kept) : kept[i] = " " \/ Len(frag) = TitleMax
        /\ (frag # <<>> /\ frag[Len(frag)] = " ") =>
               \E i \in (Len(frag) + 1)..Len(kept) : kept[i] # " "

\* C23 as claimed: the base file name is the job id when there is no title,
\* and otherwise the job id, "_" and the title without the characters
\* outside [A-Za-z0-9 _-], trailing spaces trimmed, cut to 50 characters.
C23_FragmentKeepsAsciiClassOnly ==
    named.conversion_id # None =>
        /\ named.filename[Len(named.filename)] = ".wav"
        /\ IF named.title = NoTitle
           THEN BaseName = <<named.conversion_id>>
           ELSE /\ StartsWith(BaseName, <<named.conversion_id, "_">>)
                /\ IsFragmentOf(Fragment, named.title, InAsciiClass)

\* C23 amended: the base file name is the job id when there is no title (None
\* or the empty string), and otherwise the job id, "_" and the title without
\* the characters that are neither alphanumeric (str.isalnum, which letters
\* and digits outside ASCII satisfy too) nor " ", "-", "_", in their order,
\* trailing spaces trimmed, then cut to 50 characters.
C23_FragmentKeepsAlnumSpaceHyphenUnderscore ==
    named.conversion_id # None =>
        /\ named.filename[Len(named.filename)] = ".wav"
        /\ IF named.title = NoTitle
           THEN BaseName = <<named.conversion_id>>
           ELSE /\ StartsWith(BaseName, <<named.conversion_id, "_">>)
                /\ IsFragmentOf(Fragment, named.title, IsSafeChar)

C23_Witness ==
    /\ named.conversion_id # None
    /\ named.title = LongTitle(" ")
    /\ Len(Fragment) = TitleMax
    /\ Fragment[TitleMax] = " "

\* C24 as claimed: for the title "Report: Q1/Q2!!" the fragment after the job
\* id is "Report Q12".
C24_ReportFragmentIsReportQ12 ==
    (named.conversion_id # None /\ named.title = ReportTitle) =>
        Fragment = <<"R", "e", "p", "o", "r", "t", " ", "Q", "1", "2">>

\* C24 amended: for the title "Report: Q1/Q2!!" the fragment after the job id
\* is "Report Q1Q2": ":", "/" and "!" are removed, both "Q" stay.
C24_ReportFragmentIsReportQ1Q2 ==
    (named.conversion_id # None /\ named.title = ReportTitle) =>
        named.filename = <<named.conversion_id, "_", "R", "e", "p", "o", "r", "t", " ",
                           "Q", "1", "Q", "2", ".wav">>

C24_Witness ==
    /\ named.conversion_id # None
    /\ named.title = ReportTitle
    /\ Len(Fragment) = 11

\* C26: get_file_size returns 0 for a path that does not exist and the byte
\* length of the file otherwise; it does not raise for a missing path.
C26_SizeIsZeroForMissingPathAndNeverRaises ==
    /\ sized.pc # "raised"
    /\ (sized.pc = "done" /\ ~sized.found) => sized.ret = 0
    /\ (sized.pc = "done" /\ exists(audio, sized.file_path)) =>
           sized.ret = st_size(audio, sized.file_path)

C28_HistoryReturnsAtMostCap ==
    answer.call = "GET /history" =>
        /\ answer.limit <= HistoryLimitCap
        /\ Len(answer.items) <= HistoryLimitCap

\* C29: delete_conversion_record(id) returns True exactly when there was a
\* row with that id; afterwards get_conversion_details(id) is None, another
\* delete of the id would return False, and every other row is as it was.
C29_DeleteRecordRemovesExactlyThatRow ==
    [][answer'.call = "delete_conversion_record" =>
          LET id == answer'.conversion_id
          IN  /\ answer'.ret <=> HasRow(conversions, id)
              /\ get_conversion(conversions', id) = <<>>
              /\ ~delete_conversion(conversions', id).deleted
              /\ \A o \in QueryIds \ {id} :
                    get_conversion(conversions', o) = get_conversion(conversions, o)
              /\ Len(conversions') = Len(conversions) - (IF answer'.ret THEN 1 ELSE 0)
              /\ audio' = audio]_vars

C29_Witness ==
    /\ answer.call = "delete_conversion_record"
    /\ answer.ret
    /\ answer.conversion_id = uuid4(2)
    /\ HasRow(conversions, uuid4(1))

\* C25: when convert_text_to_speech raises (engine acquisition or synthesis),
\* the handler leaves a row in the history store with a failed status and
\* the error message, under the job id if there is one.
C25_FailureIsRecorded ==
    \A t \in Tasks :
        replies[t].code = 500 =>
            \E i \in DOMAIN conversions :
                /\ conversions[i].status = "failed: " \o tasks[t].err
                /\ tasks[t].id # None => conversions[i].id = tasks[t].id

\* C27: a POST /convert whose extracted text is empty is answered 400 in the
\* step in which it arrives, and that step changes nothing else: the request
\* has no engine, no conversion id and ran no stage, and the cache, the
\* model files, the audio directory, the history rows, the scheduled
\* background tasks and the other requests are as before.  Nothing happens
\* to the request afterwards.
C27_EmptyTextIsRejectedWithoutEffect ==
    [][\A t \in Tasks :
          /\ (/\ ~replies[t].arrived
              /\ replies'[t].arrived
              /\ replies'[t].markdown_text # <<>>
              /\ strip(extract_text(replies'[t].markdown_text)) = <<>>) =>
                 /\ replies'[t].code = 400
                 /\ tasks'[t].ran = <<>>
                 /\ tasks'[t].engine = 0
                 /\ tasks'[t].id = None
                 /\ \A u \in Tasks \ {t} : tasks'[u] = tasks[u] /\ replies'[u] = replies[u]
                 /\ UNCHANGED <<loaded_voices, models, audio, constructed, nGet,
                                partialLoads, conversions, scheduled, sweeps>>
          /\ replies[t].code = 400 =>
                 tasks'[t] = tasks[t] /\ replies'[t] = replies[t]]_vars

C27_Witness ==
    \E t \in Tasks :
        /\ replies[t].code = 400
        /\ tasks[t].pc = "rejected"
        /\ \E u \in Tasks : replies[u].code = 200 /\ HasRow(conversions, tasks[u].id)
        /\ Len(scheduled) = 2

\* The errors that end a load attempt: the catalog has no entry, a download
\* failed, PiperVoice.load raised.
LoadErrors == {"unknown_voice", "download", "load"}

\* The request ended its load attempt with an error in this step.
LoadFailed(t) ==
    tasks[t].pc # "raised" /\ tasks'[t].pc = "raised" /\ tasks'[t].err \in LoadErrors

\* C31: a failed load attempt leaves the cache as it was; the cache entry of
\* a voice id changes only in a step in which a request for that id got its
\* engine from PiperVoice.load on complete files; and a request for an id of
\* the catalog that is not cached, started after a request for the same id
\* failed, runs the load sequence again: it starts the download, or, with
\* both files on disk, calls PiperVoice.load.
C31_FailedLoadLeavesCacheAndIsRetried ==
    [][/\ \A t \in Tasks : LoadFailed(t) => loaded_voices' = loaded_voices
       /\ \A v \in VoiceIds :
             loaded_voices'[v] # loaded_voices[v] =>
                 \E t \in Tasks :
                     /\ tasks'[t].voice = v
                     /\ tasks[t].pc \in {"idle", "write_config"}
                     /\ ~LoadFailed(t)
                     /\ PiperVoice_can_load(models', v)
                     /\ constructed'[v] = constructed[v] + 1
                     /\ loaded_voices'[v] = constructed'[v]
       /\ \A t \in Tasks :
             LET v == tasks'[t].voice
             IN  (/\ Started(t)
                  /\ v \in DOMAIN VOICE_MODELS
                  /\ ~is_loaded(loaded_voices, v)
                  /\ \E u \in Tasks : /\ tasks[u].pc = "raised"
                                       /\ tasks[u].voice = v
                                       /\ tasks[u].err \in LoadErrors) =>
                     \/ /\ ~OnDisk(v)
                        /\ tasks'[t].pc = "get_model"
                        /\ nGet'[v] = nGet[v] + 1
                     \/ /\ OnDisk(v)
                        /\ nGet' = nGet
                        /\ \/ tasks'[t].pc = "raised" /\ tasks'[t].err = "load"
                           \/ loaded_voices'[v] = constructed[v] + 1]_vars

\* The engine could not be constructed from the downloaded files; a later
\* request for the same id found the files, constructed the engine and cached
\* it.
C31_Witness ==
    \E t, u \in Tasks :
        LET v == tasks[t].voice
        IN  /\ tasks[t].pc = "raised" /\ tasks[t].err = "load"
            /\ v \in DOMAIN VOICE_MODELS
            /\ nGet[v] = 2
            /\ tasks[u].voice = v /\ tasks[u].pc = "returned"
            /\ tasks[u].engine # 0
            /\ loaded_voices[v] = tasks[u].engine

\* The two background tasks lines 169-170 add for request t.
BackgroundTasksOf(t) ==
    <<[request |-> t, func |-> "tts_service.cleanup_old_files"],
      [request |-> t, func |-> "db_service.cleanup_old_records"]>>

\* The request got its answer in this step.
Answered(t, code) == replies[t].code = 0 /\ replies'[t].code = code

\* C32: background tasks are added only in the step in which a request whose
\* convert_text_to_speech returned gets its 200 answer, after the calls that
\* hand its outcome to the history store were made (they may have raised);
\* nothing else adds a sweep, and a request that was rejected or whose
\* conversion raised has no background task.
C32_SweepScheduledOnlyAfterSuccess ==
    [][/\ scheduled' # scheduled =>
             \E t \in Tasks :
                 /\ tasks[t].pc = "returned"
                 /\ tasks[t].stages[Len(tasks[t].stages)]
                        \in {"Completed", "FallbackCompleted"}
                 /\ Answered(t, 200)
                 /\ scheduled' = scheduled \o BackgroundTasksOf(t)
                 /\ \E db \in {"ok", "insert_fails", "update_fails"} :
                        conversions' = record_success(conversions, audio, tasks[t].id,
                                                      tasks[t].title, tasks[t].ret, db)
       /\ \A t \in Tasks :
             tasks'[t].pc \in {"rejected", "raised"} \/ replies'[t].code # 200 =>
                 \A i \in DOMAIN scheduled' : scheduled'[i].request # t]_vars

\* A conversion raised in the synthesis and was answered 500; another one
\* succeeded, and the background tasks of that one are all that is scheduled.
C32_Witness ==
    \E t, u \in Tasks :
        /\ tasks[t].pc = "raised" /\ tasks[t].err = "synthesis" /\ replies[t].code = 500
        /\ replies[u].code = 200
        /\ scheduled = BackgroundTasksOf(u)

\* The store did not take the completed row of request t.
NotRecorded(rows, t) ==
    \A i \in DOMAIN rows : rows[i].id = tasks[t].id => rows[i].status # "completed"

\* C33: when the history store raises while the row of a conversion that
\* returned is written (no row, or a row left pending), the request is
\* answered 200 with status completed and the download URL of its job, the
\* audio directory is left as it was, so the artifact of the job is still
\* there, and the two background tasks are added.
C33_StoreErrorKeepsOutcome ==
    [][\A t \in Tasks :
          (/\ tasks[t].pc = "returned"
           /\ replies[t].code = 0
           /\ replies'[t].code # 0
           /\ NotRecorded(conversions', t)) =>
              /\ replies'[t].code = 200
              /\ replies'[t].status = "completed"
              /\ replies'[t].conversion_id = tasks[t].id
              /\ replies'[t].download_url = <<"/download/", tasks[t].id>>
              /\ audio' = audio
              /\ scheduled' = scheduled \o BackgroundTasksOf(t)]_vars

\* The encoder succeeded, the store raised: the request is answered 200, the
\* MP3 file is on disk, the sweep is scheduled, and the store has no
\* completed row of the job.
C33_Witness ==
    \E t \in Tasks :
        /\ replies[t].code = 200
        /\ tasks[t].tr = "ok"
        /\ exists(audio, tasks[t].ret)
        /\ NotRecorded(conversions, t)
        /\ \E i \in DOMAIN scheduled : scheduled[i].request = t

\* The files request t works on: the WAV file and the MP3 file made of it.
JobFiles(t) ==
    IF tasks[t].file = <<>> THEN {} ELSE {tasks[t].file, with_suffix(tasks[t].file, ".mp3")}

C35_SweepNeverRaises == \A s \in Sweeps : sweeps[s].pc # "raised"

\* C36: for every item GET /history lists with a download_url,
\* get_audio_file_path of the item's id returns a file of the audio
\* directory, so that GET /download/{id} finds it.
C36_ListedDownloadResolves ==
    LET items == get_conversion_history(conversions, HistoryLimitCap, 0)
    IN  \A i \in DOMAIN items :
            items[i].download_url # NoPath =>
                \A audio_file \in get_audio_file_path(audio, items[i].id) :
                    audio_file # NoPath /\ exists(audio, audio_file)

\* The places where a request waits for the network or for the encoder.
WaitPcs == LoadPcs \cup {"ffmpeg"}

\* C37: a request that waits for its download or its encoder is moved by
\* nothing but its own resumption (no step of another request, no timeout
\* and no cancellation changes it), and every other request that has been
\* submitted reaches a terminal state, also when the first request waits for
\* ever.
C37_StalledJobBlocksOnlyItself ==
    /\ [][\A t \in Tasks :
            tasks[t].pc \in WaitPcs /\ tasks'[t] # tasks[t] =>
                /\ \A u \in Tasks \ {t} : tasks'[u] = tasks[u]
                /\ tasks'[t].pc \in (WaitPcs \cup {"returned", "raised"}) \ {tasks[t].pc}]_vars
    /\ \A u \in Tasks \ {Stalled} : (tasks[u].pc # "idle") ~> Finished(u)

\* The first request still waits for the answer to its first GET; a later
\* request for the same voice has downloaded the model, encoded and returned.
C37_Witness ==
    \E u \in Tasks \ {Stalled} :
        /\ tasks[Stalled].pc = "get_model"
        /\ tasks[u].voice = tasks[Stalled].voice
        /\ tasks[u].pc = "returned"

\* C38: VOICE_MODELS is a table fixed when the module is loaded, and no
\* operation of the service writes to it.  get_default_voice returns an
\* entry that the catalog holds under the entry's own id; get_voice_by_id
\* returns the entry whose id is the one asked for, or None for an id that
\* is no key; and what the requests got from the catalog at any time of a
\* run agrees with the table: a request was turned down as unknown only for
\* an id that is no key, a download was started only for an id that is one,
\* and a request without voice id works with the default entry's id.
C38_CatalogLookupsAgreeWithTable ==
    /\ get_default_voice.id \in DOMAIN VOICE_MODELS
    /\ VOICE_MODELS[get_default_voice.id] = get_default_voice
    /\ \A id \in VoiceIds :
          IF id \in DOMAIN VOICE_MODELS
          THEN get_voice_by_id(id) = VOICE_MODELS[id] /\ get_voice_by_id(id).id = id
          ELSE get_voice_by_id(id) = NoVoiceModel
    /\ \A t \in Tasks :
          /\ tasks[t].err = "unknown_voice" => tasks[t].voice \notin DOMAIN VOICE_MODELS
          /\ tasks[t].pc \in LoadPcs =>
                /\ get_voice_by_id(tasks[t].voice).id = tasks[t].voice
                /\ nGet[tasks[t].voice] > 0
          /\ tasks[t].pc # "idle" => tasks[t].voice \in VoiceIds
    /\ \A id \in VoiceIds \ DOMAIN VOICE_MODELS : nGet[id] = 0

\* One request was turned down for an id that is no key of the catalog, and
\* another, for the default voice, has downloaded the files of the default
\* entry and got its engine.
C38_Witness ==
    \E t, u \in Tasks :
        /\ tasks[t].err = "unknown_voice"
        /\ tasks[u].voice = get_default_voice.id
        /\ tasks[u].pc = "returned"
        /\ nGet[get_default_voice.id] = 2

====
